---- MODULE Spec2Model ----
(***************************************************************************)
(* Model of generate.py: the fixed-step simulation loop, the collision     *)
(* recorder and generate_audio_track.                                      *)
(*                                                                         *)
(* Times are Python floats in the source.  Here a time is an exact         *)
(* rational in lowest terms, [num |-> n, den |-> d] with d > 0, so that    *)
(* repeated `+= dt`, `n * dt`, `int(t * 1000)` and `round(t * 1000)` are   *)
(* separate computations that can disagree.  Rounding error of the binary  *)
(* representation is not modelled.                                         *)
(*                                                                         *)
(* pymunk and pydub are libraries.  space.step(dt) is modelled by what the *)
(* script observes of it: it calls the post_solve handler some number of   *)
(* times.  AudioSegment.silent / overlay / len are modelled at millisecond *)
(* granularity: a buffer is a sequence with one amplitude per millisecond. *)
(***************************************************************************)
EXTENDS Integers, Sequences, FiniteSets

VARIABLES
    FRAME_RATE,        \* generate.py:18
    DURATION,          \* generate.py:19
    TOTAL_FRAMES,      \* generate.py:20
    clip,              \* the collision sound, one amplitude per millisecond
    pc,                \* position of the script
    frame,             \* loop variable of the simulation loop
    current_time,      \* space.current_time
    steps,             \* number of space.step calls made so far
    collision_times,   \* generate.py:61
    frames_written,    \* the frames drawn so far: index and clock of each
    total_duration,    \* parameter of generate_audio_track
    audio,             \* local `audio` of generate_audio_track
    ev,                \* position of the for loop over collision_times
    collision_ms,      \* local `collision_ms` of generate_audio_track
    audio_out          \* content of AUDIO_OUTPUT: {} until exported

vars == <<FRAME_RATE, DURATION, TOTAL_FRAMES, clip, pc, frame, current_time,
          steps, collision_times, frames_written, total_duration, audio, ev,
          collision_ms, audio_out>>

\* ------------------------------------------------------------------ bounds
MaxFrameRate == 3
MaxDuration == 2
MaxContacts == 2
MaxEvents == 3
MaxNegative == 1
MaxBufferMs == 3
MaxClipMs == 2
MaxEventMs == 4
SubMsSteps == 3
MaxListLen == 2

\* --------------------------------------------------------------- constants
DefaultFrameRate == 60
DefaultDuration == 5
GeneratedClipMs == 100
MsPerSecond == 1000

\* ------------------------------------------------------- exact arithmetic
Abs(x) == IF x < 0 THEN -x ELSE x

Min(a, b) == IF a < b THEN a ELSE b

Max(a, b) == IF a > b THEN a ELSE b

RECURSIVE GCD(_, _)
GCD(a, b) == IF b = 0 THEN a ELSE GCD(b, a % b)

\* The number n/d (d # 0) in lowest terms with a positive denominator.
Rat(n, d) ==
    LET g == GCD(Abs(n), Abs(d))
        s == IF d < 0 THEN -1 ELSE 1
    IN  [num |-> (s * n) \div g, den |-> Abs(d) \div g]

Zero == Rat(0, 1)

RatAdd(a, b) == Rat(a.num * b.den + b.num * a.den, a.den * b.den)

RatMulInt(a, k) == Rat(a.num * k, a.den)

RatLeq(a, b) == a.num * b.den <= b.num * a.den

\* math.floor
Floor(r) == r.num \div r.den

\* int(x) of a float: truncation toward zero
PyInt(r) == IF r.num >= 0 THEN r.num \div r.den ELSE -((-r.num) \div r.den)

\* round(x) of a float: nearest integer, ties to the even one
PyRound(r) ==
    LET q == Floor(r)
        twice == 2 * (r.num - q * r.den)
    IN  IF twice < r.den THEN q
        ELSE IF twice > r.den THEN q + 1
        ELSE IF q % 2 = 0 THEN q ELSE q + 1

\* ------------------------------------------------------------ audio model
\* Sine(frequency).to_audio_segment(duration).fade_out(50): a clip of the
\* given length whose amplitude is positive everywhere and decays.
Clip(ms) == [i \in 1..ms |-> ms - i + 1]

\* AudioSegment.silent(duration=ms)
Silent(ms) == [i \in 1..ms |-> 0]

\* Variant of Overlay that lengthens the buffer to hold the whole clip.
Overlay_NoTruncate(a, c, pos) ==
    LET p == Min(pos, Len(a))
        n == Len(c)
        padded == a \o Silent(Max(0, p + n - Len(a)))
    IN  SubSeq(padded, 1, p) \o [i \in 1..n |-> padded[p + i] + c[i]]
                             \o SubSeq(padded, p + n + 1, Len(padded))

\* audio.overlay(sound, position=pos) for pos >= 0: the buffer up to pos,
\* then the sound mixed additively into the buffer and cut at the buffer end,
\* then the rest.
Overlay(a, c, pos) ==
    LET p == Min(pos, Len(a))
        remaining == Max(0, Len(a) - p)
        n == Min(Len(c), remaining)
    IN  SubSeq(a, 1, p) \o [i \in 1..n |-> a[p + i] + c[i]]
                        \o SubSeq(a, p + n + 1, Len(a))

\* Variant of CollisionMs that rounds to the nearest millisecond.
CollisionMs_Round(t) == PyRound(RatMulInt(t, MsPerSecond))

\* Variant of CollisionMs that rounds up.
CollisionMs_Ceil(t) == -Floor(RatMulInt(t, -MsPerSecond))

\* collision_ms = int(collision_time * 1000)
CollisionMs(t) == PyInt(RatMulInt(t, MsPerSecond))

\* Variant of Mixed that lengthens the buffer for a late event.
Mixed_Pad(a, c, ms) ==
    IF ms < Len(a)
    THEN Overlay(a, c, ms)
    ELSE Overlay(a \o Silent(ms + Len(c) - Len(a)), c, ms)

\* if collision_ms < len(audio): audio = audio.overlay(collision_sound, ...)
Mixed(a, c, ms) == IF ms < Len(a) THEN Overlay(a, c, ms) ELSE a

\* Variant of SilentMs that passes seconds where milliseconds are due.
SilentMs_Seconds(d) == PyInt(d)

\* total_duration * 1000, the duration handed to AudioSegment.silent
SilentMs(d) == PyInt(RatMulInt(d, MsPerSecond))

\* ------------------------------------------------------------- the script
\* Variant of dt with integer division.
dt_IntegerDivision == Rat(1 \div FRAME_RATE, 1)

\* dt = 1 / FRAME_RATE
dt == Rat(1, FRAME_RATE)

\* Variant of HandlerTime: the clock is advanced before the physics step.
HandlerTime_AfterIncrement == RatAdd(current_time, dt)

\* space.current_time as collision_handler reads it during space.step
HandlerTime == current_time

\* Variant of Record that inserts at the front.
Record_Prepend(times, t, k) == [i \in 1..k |-> t] \o times

\* k calls of collision_handler: collision_times.append(space.current_time)
Record(times, t, k) == times \o [i \in 1..k |-> t]

\* Variant of Snapshot that numbers the frames from 1.
Snapshot_OneBased(f, t) == [index |-> f + 1, time |-> t]

\* the frame drawn for loop index f: its file name index and the clock
Snapshot(f, t) == [index |-> f, time |-> t]

InitScript ==
    /\ TOTAL_FRAMES = FRAME_RATE * DURATION
    /\ clip = Clip(GeneratedClipMs)
    /\ pc = "loop"
    /\ frame = 0
    /\ current_time = Zero
    /\ steps = 0
    /\ collision_times = <<>>
    /\ frames_written = <<>>
    /\ total_duration = Zero
    /\ audio = <<>>
    /\ ev = 0
    /\ collision_ms = 0
    /\ audio_out = {}

Init ==
    /\ FRAME_RATE \in 1..MaxFrameRate
    /\ DURATION \in 1..MaxDuration
    /\ InitScript

\* space.step(dt): the post_solve handler runs once per resolved contact and
\* appends space.current_time.
PhysicsStep ==
    /\ pc = "loop"
    /\ frame < TOTAL_FRAMES
    /\ IF FRAME_RATE = 0
       THEN /\ pc' = "ZeroDivisionError"
            /\ UNCHANGED <<steps, collision_times>>
       ELSE /\ \E k \in 0..MaxContacts :
                 /\ Len(collision_times) + k <= MaxEvents
                 /\ collision_times' =
                        Record(collision_times, HandlerTime, k)
            /\ steps' = steps + 1
            /\ pc' = "advance"
    /\ UNCHANGED <<FRAME_RATE, DURATION, TOTAL_FRAMES, clip, frame,
                   current_time, frames_written, total_duration, audio, ev,
                   collision_ms, audio_out>>

\* space.current_time += dt
AdvanceClock ==
    /\ pc = "advance"
    /\ current_time' = RatAdd(current_time, dt)
    /\ pc' = "draw"
    /\ UNCHANGED <<FRAME_RATE, DURATION, TOTAL_FRAMES, clip, frame, steps,
                   collision_times, frames_written, total_duration, audio, ev,
                   collision_ms, audio_out>>

\* draw_frame(space, frame_NNNN.png), then the loop takes the next index
DrawFrame ==
    /\ pc = "draw"
    /\ frames_written' =
           Append(frames_written, Snapshot(frame, current_time))
    /\ frame' = frame + 1
    /\ pc' = "loop"
    /\ UNCHANGED <<FRAME_RATE, DURATION, TOTAL_FRAMES, clip, current_time,
                   steps, collision_times, total_duration, audio, ev,
                   collision_ms, audio_out>>

\* range(TOTAL_FRAMES) is exhausted; generate_audio_track is called
CallAudioTrack ==
    /\ pc = "loop"
    /\ frame >= TOTAL_FRAMES
    /\ total_duration' = Rat(DURATION, 1)
    /\ pc' = "silent"
    /\ UNCHANGED <<FRAME_RATE, DURATION, TOTAL_FRAMES, clip, frame,
                   current_time, steps, collision_times, frames_written,
                   audio, ev, collision_ms, audio_out>>

\* audio = AudioSegment.silent(duration=total_duration * 1000)
AudioSilent ==
    /\ pc = "silent"
    /\ audio' = Silent(SilentMs(total_duration))
    /\ ev' = 1
    /\ pc' = "overlay"
    /\ UNCHANGED <<FRAME_RATE, DURATION, TOTAL_FRAMES, clip, frame,
                   current_time, steps, collision_times, frames_written,
                   total_duration, collision_ms, audio_out>>

\* one iteration of `for collision_time in collision_times`
OverlayEvent ==
    /\ pc = "overlay"
    /\ ev <= Len(collision_times)
    /\ collision_ms' = CollisionMs(collision_times[ev])
    /\ audio' = Mixed(audio, clip, collision_ms')
    /\ ev' = ev + 1
    /\ UNCHANGED <<FRAME_RATE, DURATION, TOTAL_FRAMES, clip, pc, frame,
                   current_time, steps, collision_times, frames_written,
                   total_duration, audio_out>>

\* audio.export(output_path, format="wav")
ExportAudio ==
    /\ pc = "overlay"
    /\ ev > Len(collision_times)
    /\ audio_out' = {audio}
    /\ pc' = "done"
    /\ UNCHANGED <<FRAME_RATE, DURATION, TOTAL_FRAMES, clip, frame,
                   current_time, steps, collision_times, frames_written,
                   total_duration, audio, ev, collision_ms>>

Next ==
    \/ PhysicsStep
    \/ AdvanceClock
    \/ DrawFrame
    \/ CallAudioTrack
    \/ AudioSilent
    \/ OverlayEvent
    \/ ExportAudio

Spec == Init /\ [][Next]_vars

\* The script with FRAME_RATE and DURATION of either sign.  A negative frame
\* rate with a negative duration is left out: it makes TOTAL_FRAMES positive
\* and hands space.step a negative dt, and what pymunk does then is not
\* part of this script.
InitAnyConfig ==
    /\ FRAME_RATE \in -MaxNegative..MaxFrameRate
    /\ DURATION \in -MaxNegative..MaxDuration
    /\ ~(FRAME_RATE < 0 /\ DURATION < 0)
    /\ InitScript

SpecAnyConfig == InitAnyConfig /\ [][Next]_vars

\* ------------------------------------------- generate_audio_track alone
\* Event times: every multiple of 1/SubMsSteps of a millisecond up to
\* MaxEventMs milliseconds.
EventTimes ==
    {Rat(n, SubMsSteps * MsPerSecond) : n \in 0..(MaxEventMs * SubMsSteps)}

EventLists == UNION {[1..n -> EventTimes] : n \in 0..MaxListLen}

InitAudio ==
    /\ FRAME_RATE = DefaultFrameRate
    /\ DURATION = DefaultDuration
    /\ TOTAL_FRAMES = FRAME_RATE * DURATION
    /\ clip \in {Clip(n) : n \in 1..MaxClipMs}
    /\ pc = "silent"
    /\ frame = 0
    /\ current_time = Zero
    /\ steps = 0
    /\ collision_times \in EventLists
    /\ frames_written = <<>>
    /\ total_duration \in {Rat(ms, MsPerSecond) : ms \in 0..MaxBufferMs}
    /\ audio = <<>>
    /\ ev = 0
    /\ collision_ms = 0
    /\ audio_out = {}

NextAudio ==
    \/ AudioSilent
    \/ OverlayEvent
    \/ ExportAudio

SpecAudio == InitAudio /\ [][NextAudio]_vars

\* ------------------------------------------------------------------ claims
IsPrefix(s, t) == Len(s) <= Len(t) /\ SubSeq(t, 1, Len(s)) = s

InLoop == pc \in {"loop", "advance", "draw"}

AfterSilent == pc \in {"overlay", "done"}

\* The number of loop iterations that have run to their end.
Completed == frame

\* n steps of size 1 / FRAME_RATE, in exact arithmetic
StepsTime(n) == Rat(n, FRAME_RATE)

\* t seconds in milliseconds, in exact arithmetic
Millis(t) == RatMulInt(t, MsPerSecond)

\* C1: after n completed iterations of the simulation loop the clock equals
\* n * dt (inside an iteration: n * dt up to the increment, (n + 1) * dt
\* after it), and the only step that changes the clock is the increment of a
\* loop iteration.
C1_ClockIsIterationsTimesDt ==
    /\ [](/\ pc \in {"loop", "advance"}
             => current_time = StepsTime(Completed)
          /\ pc = "draw" => current_time = StepsTime(Completed + 1)
          /\ ~InLoop => current_time = StepsTime(TOTAL_FRAMES))
    /\ [][current_time' # current_time
            => /\ pc = "advance" /\ pc' = "draw"
               /\ current_time' = RatAdd(current_time, StepsTime(1))]_vars

\* A run of at least four iterations has ended and its clock is not a whole
\* number of seconds at some earlier frame (frame rate 3).
C1_Witness ==
    /\ pc = "loop"
    /\ FRAME_RATE = 3
    /\ frame = 5
    /\ current_time = [num |-> 5, den |-> 3]

\* C2: the recorded collision times are non-decreasing in every state, and
\* every step leaves the earlier entries in place (append-only), also when a
\* physics step reports several collisions.
C2_EventsOrderedAppendOnly ==
    /\ [](\A i \in 1..Len(collision_times) : \A j \in i..Len(collision_times) :
              RatLeq(collision_times[i], collision_times[j]))
    /\ [][IsPrefix(collision_times, collision_times')]_vars

\* Two collisions recorded in one step, then one in a later step.
C2_Witness ==
    /\ Len(collision_times) = 3
    /\ collision_times[1] = collision_times[2]
    /\ collision_times[2] # collision_times[3]

\* C8: the run takes TOTAL_FRAMES physics steps and draws TOTAL_FRAMES frames
\* with indices 0, 1, ... in order; the step of frame f is taken before frame
\* f is drawn, and frame f is drawn before the step of frame f + 1.
C8_StepsAndSnapshotsAlternate ==
    /\ TOTAL_FRAMES = PyRound(RatMulInt(Rat(DURATION, 1), FRAME_RATE))
    /\ \A i \in 1..Len(frames_written) :
           /\ frames_written[i].index = i - 1
           /\ frames_written[i].time = StepsTime(i)
    /\ Len(frames_written) = frame
    /\ pc = "loop" => steps = frame /\ frame <= TOTAL_FRAMES
    /\ pc \in {"advance", "draw"} => steps = frame + 1 /\ frame < TOTAL_FRAMES
    /\ ~InLoop => steps = TOTAL_FRAMES /\ Len(frames_written) = TOTAL_FRAMES

\* A run of six frames has ended.
C8_Witness ==
    /\ pc = "done"
    /\ TOTAL_FRAMES = 6
    /\ Len(frames_written) = 6
    /\ steps = 6

\* C9: the collisions recorded by the physics step of frame f carry the
\* timestamp f * dt, the clock before that iteration's increment; so every
\* recorded timestamp is one of 0, dt, ..., (TOTAL_FRAMES - 1) * dt.
C9_TimestampIsFrameTimesDt ==
    /\ [](\A i \in 1..Len(collision_times) :
              \E f \in 0..(TOTAL_FRAMES - 1) :
                  collision_times[i] = StepsTime(f))
    /\ [][\A i \in (Len(collision_times) + 1)..Len(collision_times') :
              /\ pc = "loop"
              /\ collision_times'[i] = StepsTime(frame)]_vars

\* A collision was recorded during the first step and one during the last.
C9_Witness ==
    /\ pc = "done"
    /\ TOTAL_FRAMES >= 2
    /\ Len(collision_times) >= 2
    /\ collision_times[1] = Zero
    /\ collision_times[Len(collision_times)]
           = StepsTime(TOTAL_FRAMES - 1)

\* C10: in the script as wired every recorded collision has an offset below
\* the buffer length, and every collision already processed has left the
\* clip in the buffer at its offset.
C10_NoRecordedEventDropped ==
    AfterSilent =>
        \A i \in 1..Len(collision_times) :
            LET ms == CollisionMs(collision_times[i])
            IN  /\ ms >= 0
                /\ ms < Len(audio)
                /\ i < ev => audio[ms + 1] >= clip[1]

\* The audio was exported with a collision of the last frame in it.
C10_Witness ==
    /\ pc = "done"
    /\ Len(collision_times) >= 1
    /\ collision_times[Len(collision_times)]
           = StepsTime(TOTAL_FRAMES - 1)
    /\ audio_out = {audio}

\* C7 (as claimed): a run with a non-positive duration or frame rate takes no
\* physics step, draws no frame and writes no audio.
C7_InvalidConfigProducesNothing ==
    (FRAME_RATE <= 0 \/ DURATION <= 0)
        => /\ steps = 0
           /\ frames_written = <<>>
           /\ audio_out = {}

\* C3: once allocated, the buffer of generate_audio_track is
\* round(total_duration * 1000) milliseconds long before and after every
\* overlay and when it is exported; an overlaid clip is in the buffer from
\* its offset up to the buffer end and no further.
C3_AudioLengthIsDuration ==
    AfterSilent =>
        /\ Len(audio) = PyRound(Millis(total_duration))
        /\ pc = "done" => audio_out = {audio}
        /\ (ev > 1 /\ collision_ms < Len(audio))
               => \A j \in 1..Len(clip) :
                      collision_ms + j <= Len(audio)
                          => audio[collision_ms + j] >= clip[j]

\* A clip of two milliseconds was overlaid on the last millisecond of the
\* buffer, and the track was exported.
C3_Witness ==
    /\ pc = "done"
    /\ Len(clip) = 2
    /\ Len(collision_times) >= 1
    /\ collision_ms = Len(audio) - 1
    /\ audio[Len(audio)] >= clip[1]

\* C4: an iteration of generate_audio_track over an event whose offset is at
\* or beyond the buffer length leaves the buffer as it was and moves on to
\* the next event.
C4_LateEventDropped ==
    [][(/\ pc = "overlay"
        /\ ev <= Len(collision_times)
        /\ PyInt(Millis(collision_times[ev])) >= Len(audio))
           => /\ audio' = audio
              /\ ev' = ev + 1
              /\ pc' = "overlay"]_vars

\* The first of two events was at the buffer end and was dropped; the second
\* was overlaid after it.
C4_Witness ==
    /\ pc = "done"
    /\ Len(collision_times) = 2
    /\ Len(audio) > 0
    /\ PyInt(Millis(collision_times[1])) = Len(audio)
    /\ collision_times[2] = Zero
    /\ audio[1] >= clip[1]
    /\ \A j \in 1..Len(audio) : j > Len(clip) => audio[j] = 0

\* The event whose iteration has just run.
LastEvent == collision_times[ev - 1]

Processed == AfterSilent /\ ev > 1

\* C5 (as claimed): every event that is overlaid is overlaid at offset
\* round(event.time * 1000).
C5_OffsetIsRounded ==
    (Processed /\ collision_ms < Len(audio))
        => collision_ms = PyRound(Millis(LastEvent))

\* C5 (amended): the offset of every processed event is its time in
\* milliseconds with the fraction cut off: offset <= time * 1000 < offset + 1.
\* It is the rounded value or one below it, and an overlaid clip starts at it.
C5_OffsetIsTruncated ==
    Processed =>
        /\ RatLeq(Rat(collision_ms, 1), Millis(LastEvent))
        /\ ~RatLeq(Rat(collision_ms + 1, 1), Millis(LastEvent))
        /\ PyRound(Millis(LastEvent)) - collision_ms \in {0, 1}
        /\ collision_ms < Len(audio) => audio[collision_ms + 1] >= clip[1]

\* An event at 1 2/3 ms was overlaid at offset 1, not at 2.
C5_Witness ==
    /\ Processed
    /\ Millis(LastEvent) = [num |-> 5, den |-> 3]
    /\ collision_ms = 1
    /\ Len(audio) = 3
    /\ audio[2] >= clip[1]
    /\ audio[3] < clip[1]

\* C6: the offset of every processed event (all have non-negative times) is
\* floor(time * 1000), and the events are taken one by one in list order.
C6_OffsetIsFloorInOrder ==
    /\ [](Processed =>
             /\ LastEvent.num >= 0
             /\ collision_ms = Floor(Millis(LastEvent)))
    /\ [][ev' # ev =>
              IF pc = "silent"
              THEN ev' = 1
              ELSE /\ ev' = ev + 1
                   /\ ev <= Len(collision_times)
                   /\ collision_ms' = Floor(Millis(collision_times[ev]))]_vars

\* Two events given in decreasing order of time, neither a whole number of
\* milliseconds, have both been processed.
C6_Witness ==
    /\ pc = "done"
    /\ Len(collision_times) = 2
    /\ Millis(collision_times[1]) = [num |-> 7, den |-> 3]
    /\ Millis(collision_times[2]) = [num |-> 2, den |-> 3]
    /\ collision_ms = 0

====
